---- MODULE Spec2Model ----
(***************************************************************************)
(* A model of langchain/callbacks/tracers/schemas.py (the trace record     *)
(* schemas and the deprecated RunTypeEnum accessor) and of                 *)
(* langchain/embeddings/nlpcloud.py (the NLP Cloud embeddings adapter).    *)
(*                                                                         *)
(* Python values are tagged records: [t |-> <type>, v |-> <payload>].      *)
(* A Python str is a sequence of one-character strings, so that indexing   *)
(* a str (s[-1]) is defined.  A Python dict is a function whose DOMAIN is  *)
(* the set of its keys.                                                    *)
(***************************************************************************)
EXTENDS Integers, Sequences, FiniteSets, TLC

VARIABLES
    values,     \* the mapping the caller handed to the last construction, as the caller sees it afterwards
    given,      \* the same mapping as it was when the call was made
    call,       \* the last construction call: the class and the entry point used
    result,     \* its outcome: the record built, or the exception raised
    parent,     \* a Run held by a caller, whose child_runs list is appended to
    appended,   \* the children appended to parent.child_runs, in the order of the append calls
    warned,     \* the warnings issued through warnings.warn, in order
    ret,        \* the RunTypeEnum() calls that returned: how many, and the last value returned
    looked,     \* the result of the last member lookup on the returned enumeration
    environ,    \* os.environ, restricted to NLPCLOUD_API_KEY
    installed,  \* whether `import nlpcloud` succeeds
    adapters,   \* the NLPCloudEmbeddings objects that exist
    embedded    \* the last embed_documents / embed_query call and its outcome

runVars == <<values, given, call, result>>
childVars == <<parent, appended>>
enumVars == <<warned, ret, looked>>
nlpVars == <<environ, installed, adapters, embedded>>
vars == <<values, given, call, result, parent, appended, warned, ret, looked,
          environ, installed, adapters, embedded>>

-----------------------------------------------------------------------------
(* Python values *)

None == [t |-> "None"]
PyStr(s) == [t |-> "str", v |-> s]
PyInt(n) == [t |-> "int", v |-> n]
PyBool(b) == [t |-> "bool", v |-> b]
PyList(q) == [t |-> "list", v |-> q]
PyDict(m) == [t |-> "dict", v |-> m]
DateTime(n) == [t |-> "datetime", v |-> n]
PyUUID(n) == [t |-> "UUID", v |-> n]

EmptyDict == [k \in {} |-> None]

\* d.get(k): the value at k, None when the key is absent
DictGet(d, k) == IF k \in DOMAIN d THEN d[k] ELSE None

\* d[k] = v
DictSet(d, k, v) == [x \in DOMAIN d \cup {k} |-> IF x = k THEN v ELSE d[x]]

\* a mutation of s[-1]: the first element instead of the last
FirstElement(s) == s[1]

\* s[-1] on a non-empty list
LastElement(s) == s[Len(s)]

-----------------------------------------------------------------------------
(* Field declarations.  A field is [ty, req, none, dflt]: the declared type, *)
(* whether the field is required, whether None is accepted (Optional[..]),  *)
(* and the default (a value, or the utcnow default factory).                *)

UtcNow == [t |-> "utcnow"]
Required(ty) == [ty |-> ty, req |-> TRUE, none |-> FALSE, dflt |-> None]
RequiredOptional(ty) == [ty |-> ty, req |-> TRUE, none |-> TRUE, dflt |-> None]
OptionalNone(ty) == [ty |-> ty, req |-> FALSE, none |-> TRUE, dflt |-> None]
Defaulted(ty, d) == [ty |-> ty, req |-> FALSE, none |-> FALSE, dflt |-> d]
OptionalDefaulted(ty, d) == [ty |-> ty, req |-> FALSE, none |-> TRUE, dflt |-> d]

BaseRunV2Schema ==
    [id |-> Required("UUID"),
     name |-> Required("str"),
     start_time |-> Required("datetime"),
     run_type |-> Required("str"),
     end_time |-> OptionalNone("datetime"),
     extra |-> OptionalNone("dict"),
     error |-> OptionalNone("str"),
     serialized |-> RequiredOptional("dict"),
     events |-> OptionalNone("list"),
     inputs |-> Required("dict"),
     outputs |-> OptionalNone("dict"),
     reference_example_id |-> OptionalNone("UUID"),
     parent_run_id |-> OptionalNone("UUID"),
     tags |-> OptionalNone("list")]

\* a class's fields: those of its base, then its own
Extend(base, own) ==
    [f \in DOMAIN base \cup DOMAIN own |-> IF f \in DOMAIN own THEN own[f] ELSE base[f]]

RunOwnFields ==
    [execution_order |-> Required("int"),
     child_execution_order |-> Required("int"),
     child_runs |-> Defaulted("list", PyList(<<>>)),
     tags |-> OptionalDefaulted("list", PyList(<<>>))]

\* a mutation of the Run schema: name declared Optional[str] = None
RunSchemaNameOptional ==
    Extend(Extend(BaseRunV2Schema, RunOwnFields), [name |-> OptionalNone("str")])

RunSchema == Extend(BaseRunV2Schema, RunOwnFields)

BaseRunSchema ==
    [uuid |-> Required("str"),
     parent_uuid |-> OptionalNone("str"),
     start_time |-> Defaulted("datetime", UtcNow),
     end_time |-> Defaulted("datetime", UtcNow),
     extra |-> OptionalNone("dict"),
     execution_order |-> Required("int"),
     child_execution_order |-> Required("int"),
     serialized |-> Required("dict"),
     session_id |-> Required("int"),
     error |-> OptionalNone("str")]

LLMRunSchema ==
    Extend(BaseRunSchema,
           [prompts |-> Required("list"),
            response |-> OptionalNone("LLMResult")])

ChainRunSchema ==
    Extend(BaseRunSchema,
           [inputs |-> Required("dict"),
            outputs |-> OptionalNone("dict"),
            child_llm_runs |-> Defaulted("list", PyList(<<>>)),
            child_chain_runs |-> Defaulted("list", PyList(<<>>)),
            child_tool_runs |-> Defaulted("list", PyList(<<>>))])

ToolRunSchema ==
    Extend(BaseRunSchema,
           [tool_input |-> Required("str"),
            output |-> OptionalNone("str"),
            action |-> Required("str"),
            child_llm_runs |-> Defaulted("list", PyList(<<>>)),
            child_chain_runs |-> Defaulted("list", PyList(<<>>)),
            child_tool_runs |-> Defaulted("list", PyList(<<>>))])

LegacyClasses == {"BaseRun", "LLMRun", "ChainRun", "ToolRun"}

LegacySchema(cls) ==
    CASE cls = "BaseRun" -> BaseRunSchema
      [] cls = "LLMRun" -> LLMRunSchema
      [] cls = "ChainRun" -> ChainRunSchema
      [] cls = "ToolRun" -> ToolRunSchema

\* whether value v is accepted for a field (no input of the model is of a
\* type that validation would coerce: a str field takes only a str)
Fits(fld, v) ==
    \/ fld.ty = "Any"
    \/ fld.none /\ v.t = "None"
    \/ v.t = fld.ty

\* the value of a field the input does not give; now[f] is what the utcnow
\* default factory of field f reads from the clock
FieldDefault(fld, f, now) == IF fld.dflt = UtcNow THEN DateTime(now[f]) ELSE fld.dflt

Raised(exc) == [status |-> "error", exc |-> exc, run |-> EmptyDict]
Built(run) == [status |-> "ok", exc |-> "none", run |-> run]
NoResult == [status |-> "none", exc |-> "none", run |-> EmptyDict]

\* a mutation of Validate: a field that has a default always takes it, the
\* given value is dropped
ValidateDroppingGiven(schema, vals, now) ==
    IF \A f \in DOMAIN schema :
          IF f \in DOMAIN vals THEN Fits(schema[f], vals[f]) ELSE ~schema[f].req
    THEN Built([f \in DOMAIN schema |->
                  IF f \in DOMAIN vals /\ schema[f].req
                  THEN vals[f] ELSE FieldDefault(schema[f], f, now)])
    ELSE Raised("ValidationError")

\* field validation of a model class: every given field fits, every required
\* field is given; keys that are no field are ignored
Validate(schema, vals, now) ==
    IF \A f \in DOMAIN schema :
          IF f \in DOMAIN vals THEN Fits(schema[f], vals[f]) ELSE ~schema[f].req
    THEN Built([f \in DOMAIN schema |->
                  IF f \in DOMAIN vals THEN vals[f] ELSE FieldDefault(schema[f], f, now)])
    ELSE Raised("ValidationError")

-----------------------------------------------------------------------------
(* Run.assign_name: the "before" validator.  It returns the mapping it was  *)
(* given, with "name" assigned in place, or raises.                         *)

Returned(vals) == [exc |-> "none", values |-> vals]
Threw(exc) == [exc |-> exc, values |-> EmptyDict]

Value(v) == [exc |-> "none", value |-> v]
Error(exc) == [exc |-> exc, value |-> None]

\* the Python str of a key
KeyStr(k) ==
    CASE k = "name" -> <<"n", "a", "m", "e">>
      [] k = "id" -> <<"i", "d">>

\* whether `k in c` can be evaluated: c is a mapping, a sequence or a str
Iterable(c) == c.t \in {"dict", "list", "str"}

\* `k in c` for a str k: key membership in a dict, element membership in a
\* list, substring test in a str
Contains(c, k) ==
    CASE c.t = "dict" -> k \in DOMAIN c.v
      [] c.t = "list" -> \E i \in 1 .. Len(c.v) : c.v[i] = PyStr(KeyStr(k))
      [] c.t = "str" ->
            \E i \in 0 .. Len(c.v) - Len(KeyStr(k)) :
                SubSeq(c.v, i + 1, i + Len(KeyStr(k))) = KeyStr(k)

\* c[k] for a str k
Subscript(c, k) ==
    IF c.t = "dict"
    THEN IF k \in DOMAIN c.v THEN Value(c.v[k]) ELSE Error("KeyError")
    ELSE Error("TypeError")

\* c[-1]
Last(c) ==
    CASE c.t = "list" -> IF Len(c.v) = 0 THEN Error("IndexError") ELSE Value(LastElement(c.v))
      [] c.t = "str" -> IF Len(c.v) = 0 THEN Error("IndexError")
                        ELSE Value(PyStr(<<LastElement(c.v)>>))
      [] c.t = "dict" -> Error("KeyError")
      [] OTHER -> Error("TypeError")

\* vals with "name" assigned from x, or the exception evaluating x raised
AssignName(vals, x) ==
    IF x.exc # "none" THEN Threw(x.exc) ELSE Returned(DictSet(vals, "name", x.value))

\* a mutation of the two branches: the "id" key is looked at before "name"
DeriveNameIdFirst(vals, ser) ==
    IF Contains(ser, "id")
    THEN LET id == Subscript(ser, "id") IN
         AssignName(vals, IF id.exc # "none" THEN id ELSE Last(id.value))
    ELSE IF Contains(ser, "name")
         THEN AssignName(vals, Subscript(ser, "name"))
         ELSE Returned(vals)

\* the two branches of assign_name, ser being values["serialized"]
DeriveName(vals, ser) ==
    IF Contains(ser, "name")
    THEN AssignName(vals, Subscript(ser, "name"))
    ELSE IF Contains(ser, "id")
         THEN LET id == Subscript(ser, "id") IN
              AssignName(vals, IF id.exc # "none" THEN id ELSE Last(id.value))
         ELSE Returned(vals)

\* a mutation of assign_name: the explicit name is not looked at, the name is
\* always derived from serialized
assign_name_always(vals) ==
    IF "serialized" \notin DOMAIN vals THEN Threw("KeyError")
    ELSE IF ~Iterable(vals["serialized"]) THEN Threw("TypeError")
    ELSE DeriveName(vals, vals["serialized"])

\* a mutation of assign_name: a serialized that is None stands for an empty
\* descriptor and the run gets a placeholder name
assign_name_placeholder(vals) ==
    IF DictGet(vals, "name") # None THEN Returned(vals)
    ELSE IF "serialized" \notin DOMAIN vals THEN Threw("KeyError")
    ELSE IF vals["serialized"] = None THEN Returned(DictSet(vals, "name", PyStr(<<"?">>)))
    ELSE IF ~Iterable(vals["serialized"]) THEN Threw("TypeError")
    ELSE DeriveName(vals, vals["serialized"])

assign_name(vals) ==
    IF DictGet(vals, "name") # None THEN Returned(vals)
    ELSE IF "serialized" \notin DOMAIN vals THEN Threw("KeyError")
    ELSE IF ~Iterable(vals["serialized"]) THEN Threw("TypeError")
    ELSE DeriveName(vals, vals["serialized"])

NoClock == [f \in {} |-> 0]

\* Run(**d) (path "init": the validator sees the fresh keyword dict) or
\* Run.model_validate(d) (path "model_validate": the validator sees d itself)
ConstructRun(d, path) ==
    LET r == assign_name(d) IN
    /\ given' = d
    /\ call' = [cls |-> "Run", path |-> path]
    /\ IF r.exc # "none"
       THEN /\ result' = Raised(r.exc)
            /\ values' = d
       ELSE /\ result' = Validate(RunSchema, r.values, NoClock)
            /\ values' = IF path = "model_validate" THEN r.values ELSE d
    /\ UNCHANGED <<childVars, enumVars, nlpVars>>

\* BaseRun(**d), LLMRun(**d), ChainRun(**d), ToolRun(**d): field validation
\* only; now holds the clock readings of the two utcnow default factories
ConstructLegacy(cls, d, now) ==
    /\ given' = d
    /\ values' = d
    /\ call' = [cls |-> cls, path |-> "init"]
    /\ result' = Validate(LegacySchema(cls), d, now)
    /\ UNCHANGED <<childVars, enumVars, nlpVars>>

\* a mutation of list.append: the element is put at the front
ListPrepend(l, x) == <<x>> \o l

\* l.append(x) on a Python list
ListAppend(l, x) == Append(l, x)

\* a caller keeps the Run just built, to record children under it
Adopt ==
    /\ parent = None
    /\ call.cls = "Run"
    /\ result.status = "ok"
    /\ parent' = result.run
    /\ appended' = <<>>
    /\ UNCHANGED <<runVars, enumVars, nlpVars>>

\* parent.child_runs.append(child), child being the Run just built
AppendChild(limit) ==
    /\ parent # None
    /\ call.cls = "Run"
    /\ result.status = "ok"
    /\ Len(parent["child_runs"].v) < limit
    /\ parent' = [parent EXCEPT !["child_runs"] = PyList(ListAppend(@.v, result.run))]
    /\ appended' = Append(appended, result.run)
    /\ UNCHANGED <<runVars, enumVars, nlpVars>>

-----------------------------------------------------------------------------
(* RunTypeEnumDep and the deprecated accessor RunTypeEnum *)

\* class RunTypeEnumDep(str, Enum): member name |-> member value
RunTypeEnumDep ==
    [kind |-> "class",
     name |-> "RunTypeEnumDep",
     members |-> [tool |-> "tool", chain |-> "chain", llm |-> "llm",
                  retriever |-> "retriever", embedding |-> "embedding",
                  prompt |-> "prompt", parser |-> "parser"]]

\* a member of the enumeration: an instance of the class, equal to its string value
Member(cls, n) == [kind |-> "instance", of |-> cls.name, name |-> n, value |-> cls.members[n]]

DeprecationMessage ==
    "RunTypeEnum is deprecated. Please directly use a string instead (e.g. 'llm', 'chain', 'tool')."

\* a mutation of RunTypeEnum: an instance of the enumeration is returned
RunTypeEnumReturningMember ==
    [warn |-> [category |-> "DeprecationWarning", message |-> DeprecationMessage],
     value |-> Member(RunTypeEnumDep, "llm")]

\* RunTypeEnum(): the warning handed to warnings.warn, and the value returned
RunTypeEnum ==
    [warn |-> [category |-> "DeprecationWarning", message |-> DeprecationMessage],
     value |-> RunTypeEnumDep]

\* one call of RunTypeEnum(); warnings.warn records the warning and returns
CallRunTypeEnum(limit) ==
    /\ ret.calls < limit
    /\ warned' = Append(warned, RunTypeEnum.warn)
    /\ ret' = [calls |-> ret.calls + 1, value |-> RunTypeEnum.value]
    /\ UNCHANGED <<looked, runVars, childVars, nlpVars>>

\* E(v) on the value a call returned: the member whose value is v, else ValueError
LookupByValue(v) ==
    /\ ret.calls > 0
    /\ ret.value.kind = "class"
    /\ looked' = IF \E n \in DOMAIN ret.value.members : ret.value.members[n] = v
                 THEN [how |-> "value", arg |-> v, raised |-> "none",
                       out |-> Member(ret.value, CHOOSE n \in DOMAIN ret.value.members :
                                                     ret.value.members[n] = v)]
                 ELSE [how |-> "value", arg |-> v, raised |-> "ValueError", out |-> None]
    /\ UNCHANGED <<warned, ret, runVars, childVars, nlpVars>>

\* E.n on the value a call returned: the member named n, else AttributeError
LookupByName(n) ==
    /\ ret.calls > 0
    /\ ret.value.kind = "class"
    /\ looked' = IF n \in DOMAIN ret.value.members
                 THEN [how |-> "name", arg |-> n, raised |-> "none", out |-> Member(ret.value, n)]
                 ELSE [how |-> "name", arg |-> n, raised |-> "AttributeError", out |-> None]
    /\ UNCHANGED <<warned, ret, runVars, childVars, nlpVars>>

-----------------------------------------------------------------------------
(* NLPCloudEmbeddings *)

AdapterSchema ==
    [model_name |-> Required("str"),
     gpu |-> Required("bool"),
     client |-> Defaulted("Any", None)]

\* the default of model_name (the whole name stands as one element of the str)
DefaultModelName ==
    PyStr(<<"paraphrase-multilingual-mpnet-base-v2">>)

\* langchain.utils.get_from_dict_or_env(data, key, env_key): the value under
\* key in data, else the environment variable env_key, else an error
get_from_dict_or_env(data, key, env_key, env) ==
    IF key \in DOMAIN data THEN [exc |-> "none", value |-> data[key]]
    ELSE IF env_key \in DOMAIN env THEN [exc |-> "none", value |-> env[env_key]]
    ELSE [exc |-> "ValueError", value |-> None]

\* nlpcloud.Client(model, token, gpu=gpu, lang=lang)
Client(model, token, gpu, lang) ==
    [t |-> "Client", model |-> model, token |-> token, gpu |-> gpu, lang |-> lang]

\* a mutation of validate_environment: a failed import is swallowed and the
\* mapping is returned without a client
validate_environment_swallowing(vals, env, inst) ==
    LET key == get_from_dict_or_env(vals, "nlpcloud_api_key", "NLPCLOUD_API_KEY", env) IN
    IF key.exc # "none" THEN Threw(key.exc)
    ELSE IF ~inst THEN Returned(vals)
    ELSE IF "model_name" \notin DOMAIN vals \/ "gpu" \notin DOMAIN vals THEN Threw("KeyError")
    ELSE Returned(DictSet(vals, "client",
                          Client(vals["model_name"], key.value, vals["gpu"], "en")))

\* NLPCloudEmbeddings.validate_environment: the "before" validator
validate_environment(vals, env, inst) ==
    LET key == get_from_dict_or_env(vals, "nlpcloud_api_key", "NLPCLOUD_API_KEY", env) IN
    IF key.exc # "none" THEN Threw(key.exc)
    ELSE IF ~inst THEN Threw("ImportError")
    ELSE IF "model_name" \notin DOMAIN vals \/ "gpu" \notin DOMAIN vals THEN Threw("KeyError")
    ELSE Returned(DictSet(vals, "client",
                          Client(vals["model_name"], key.value, vals["gpu"], "en")))

\* NLPCloudEmbeddings.__init__(model_name=<default>, gpu=False, **kwargs):
\* the mapping handed on to the model's construction
InitArguments(kwargs) ==
    [k \in DOMAIN kwargs \cup {"model_name", "gpu"} |->
        IF k \in DOMAIN kwargs THEN kwargs[k]
        ELSE IF k = "model_name" THEN DefaultModelName ELSE PyBool(FALSE)]

\* NLPCloudEmbeddings(**kwargs) (path "init") or
\* NLPCloudEmbeddings.model_validate(kwargs) (path "model_validate")
ConstructAdapter(kwargs, path, limit) ==
    LET vals == IF path = "init" THEN InitArguments(kwargs) ELSE kwargs
        r == validate_environment(vals, environ, installed)
        built == IF r.exc # "none" THEN Raised(r.exc)
                 ELSE Validate(AdapterSchema, r.values, NoClock)
    IN /\ Cardinality(adapters) < limit
       /\ given' = kwargs
       /\ values' = IF path = "model_validate" /\ r.exc = "none" THEN r.values ELSE kwargs
       /\ call' = [cls |-> "NLPCloudEmbeddings", path |-> path]
       /\ result' = built
       /\ adapters' = IF built.status = "ok" THEN adapters \cup {built.run} ELSE adapters
       /\ UNCHANGED <<environ, installed, embedded, childVars, enumVars>>

\* client.embeddings(texts): the provider's answer, one vector per text, or a
\* failure of the request; the client attribute lookup fails on None
ClientEmbeddings(client, texts, answered) ==
    IF client = None THEN [exc |-> "AttributeError", value |-> None]
    ELSE IF ~answered THEN [exc |-> "HTTPError", value |-> None]
    ELSE [exc |-> "none",
          value |-> [embeddings |-> [i \in 1 .. Len(texts) |-> [vector_of |-> texts[i], by |-> client.model]]]]

\* self.embed_documents(texts)
embed_documents(self, texts, answered) ==
    /\ self \in adapters
    /\ LET r == ClientEmbeddings(self["client"], texts, answered) IN
       embedded' = [op |-> "embed_documents", client |-> self["client"], arg |-> texts,
                    raised |-> r.exc,
                    out |-> IF r.exc = "none" THEN r.value.embeddings ELSE <<>>]
    /\ UNCHANGED <<environ, installed, adapters, runVars, childVars, enumVars>>

\* self.embed_query(text)
embed_query(self, text, answered) ==
    /\ self \in adapters
    /\ LET r == ClientEmbeddings(self["client"], <<text>>, answered) IN
       embedded' = [op |-> "embed_query", client |-> self["client"], arg |-> <<text>>,
                    raised |-> r.exc,
                    out |-> IF r.exc = "none" THEN <<r.value.embeddings[1]>> ELSE <<>>]
    /\ UNCHANGED <<environ, installed, adapters, runVars, childVars, enumVars>>

-----------------------------------------------------------------------------
(* Inputs *)

Paths == {"init", "model_validate"}

\* a complete, valid keyword mapping of a Run, but for name and serialized
RunBase ==
    [id |-> PyUUID(1),
     start_time |-> DateTime(1),
     run_type |-> PyStr(<<"l", "l", "m">>),
     inputs |-> PyDict(EmptyDict),
     execution_order |-> PyInt(1),
     child_execution_order |-> PyInt(1)]

\* d with key k removed
Without(d, k) == [x \in DOMAIN d \ {k} |-> d[x]]

\* d, with key k set to v unless v is Absent
Absent == [t |-> "absent"]
With(d, k, v) == IF v = Absent THEN d ELSE DictSet(d, k, v)

SerializedNames == {Absent, None, PyStr(<<"X">>), PyInt(7)}
SerializedIds ==
    {Absent, None, PyList(<<>>), PyList(<<PyStr(<<"a">>)>>),
     PyList(<<PyStr(<<"a">>), PyStr(<<"b">>), PyStr(<<"Z">>)>>),
     PyList(<<PyStr(<<"a">>), PyInt(7)>>),
     PyStr(<<"a", "Z">>), PyStr(<<>>)}
Serializeds ==
    {Absent, None, PyInt(7), PyStr(<<"x">>), PyStr(<<"a", "n", "a", "m", "e">>),
     PyList(<<PyStr(<<"a">>)>>), PyList(<<PyStr(<<"i", "d">>)>>)} \cup
    {PyDict(With(With(EmptyDict, "name", n), "id", i)) : n \in SerializedNames, i \in SerializedIds}
Names == {Absent, None, PyStr(<<"N">>), PyInt(5)}

NameInputs ==
    {With(With(b, "name", n), "serialized", s) :
        b \in {RunBase, Without(RunBase, "start_time")}, n \in Names, s \in Serializeds}

-----------------------------------------------------------------------------
(* The name-derivation specification: Run construction over NameInputs *)

\* no construction yet, no parent run held, RunTypeEnum never called
InitSchemas ==
    /\ values = EmptyDict
    /\ given = EmptyDict
    /\ call = [cls |-> "none", path |-> "none"]
    /\ result = NoResult
    /\ parent = None
    /\ appended = <<>>
    /\ warned = <<>>
    /\ ret = [calls |-> 0, value |-> None]
    /\ looked = None

Init ==
    /\ InitSchemas
    /\ environ = EmptyDict
    /\ installed = FALSE
    /\ adapters = {}
    /\ embedded = None

ConstructNamed == \E d \in NameInputs, p \in Paths : ConstructRun(d, p)

Next == ConstructNamed

Spec == Init /\ [][Next]_vars

-----------------------------------------------------------------------------
(* Name derivation (Run.assign_name followed by field validation) *)

\* the last call constructed a Run without an explicit name (the key is absent
\* or None) from a serialized mapping
NameDerivedCall ==
    /\ call.cls = "Run"
    /\ DictGet(given, "name") = None
    /\ "serialized" \in DOMAIN given
    /\ given["serialized"].t = "dict"

GivenSerialized == given["serialized"].v

\* C1: a Run constructed with no explicit name from a serialized mapping that
\* has a "name" key is named serialized["name"], whether or not serialized
\* also has an "id" key.
C1_NameFromSerializedName ==
    (NameDerivedCall /\ "name" \in DOMAIN GivenSerialized /\ result.status = "ok")
        => result.run["name"] = GivenSerialized["name"]

C1_Witness ==
    /\ NameDerivedCall
    /\ {"name", "id"} \subseteq DOMAIN GivenSerialized
    /\ GivenSerialized["id"] = PyList(<<PyStr(<<"a">>), PyStr(<<"b">>), PyStr(<<"Z">>)>>)
    /\ result.status = "ok"
    /\ result.run["name"] = PyStr(<<"X">>)

\* C2: a Run constructed with no explicit name from a serialized mapping that
\* has no "name" key and whose "id" is a non-empty sequence is named by the
\* last element of that sequence.
C2_NameFromLastIdElement ==
    (/\ NameDerivedCall
     /\ "name" \notin DOMAIN GivenSerialized
     /\ "id" \in DOMAIN GivenSerialized
     /\ GivenSerialized["id"].t \in {"list", "str"}
     /\ Len(GivenSerialized["id"].v) > 0
     /\ result.status = "ok")
        => LET id == GivenSerialized["id"] IN
           result.run["name"] = IF id.t = "str" THEN PyStr(<<id.v[Len(id.v)]>>)
                                                ELSE id.v[Len(id.v)]

C2_Witness ==
    /\ NameDerivedCall
    /\ DOMAIN GivenSerialized = {"id"}
    /\ GivenSerialized["id"] = PyList(<<PyStr(<<"a">>), PyStr(<<"b">>), PyStr(<<"Z">>)>>)
    /\ result.status = "ok"
    /\ result.run["name"] = PyStr(<<"Z">>)

\* C3: constructing a Run with no explicit name from a serialized mapping that
\* has neither a "name" nor an "id" key fails with an error and builds no
\* record; no Run that exists has an unset name.
C3_NoNameNoRun ==
    /\ (/\ NameDerivedCall
        /\ "name" \notin DOMAIN GivenSerialized
        /\ "id" \notin DOMAIN GivenSerialized)
          => (result.status = "error" /\ result.run = EmptyDict)
    /\ (call.cls = "Run" /\ result.status = "ok") => result.run["name"].t = "str"

C3_Witness ==
    /\ NameDerivedCall
    /\ GivenSerialized = EmptyDict
    /\ "start_time" \in DOMAIN given
    /\ result = Raised("ValidationError")

\* C8: constructing a Run leaves the mapping handed to construction as it
\* was, whether construction succeeds or fails.
C8_InputMappingUnchanged ==
    call.cls = "Run" => values = given

\* the serialized descriptor itself is never written
SerializedUnchanged ==
    (call.cls = "Run" /\ "serialized" \in DOMAIN given)
        => ("serialized" \in DOMAIN values /\ values["serialized"] = given["serialized"])

\* the last call constructed a Run from an input whose serialized is absent
\* or is not a mapping
NoSerializedMapping ==
    /\ call.cls = "Run"
    /\ \/ "serialized" \notin DOMAIN given
       \/ given["serialized"].t # "dict"

\* C9 as stated: Run construction fails, raising to the caller and building no
\* Run, whenever serialized is absent from the input or is not a mapping.
C9_FailsWithoutMapping ==
    NoSerializedMapping => (result.status = "error" /\ result.run = EmptyDict)

\* C9 amended: with no explicit name, Run construction fails, raising to the
\* caller and building no Run, whenever serialized is absent from the input
\* or is not a mapping.
C9_UnnamedFailsWithoutMapping ==
    (NoSerializedMapping /\ DictGet(given, "name") = None)
        => (result.status = "error" /\ result.run = EmptyDict)

C9_Witness ==
    /\ NoSerializedMapping
    /\ "name" \notin DOMAIN given
    /\ "start_time" \in DOMAIN given
    /\ "serialized" \in DOMAIN given
    /\ given["serialized"] = PyList(<<PyStr(<<"a">>)>>)
    /\ result = Raised("ValidationError")

\* the last call constructed a Run with an explicit name that is not None
ExplicitName ==
    /\ call.cls = "Run"
    /\ "name" \in DOMAIN given
    /\ given["name"] # None

\* C10: a Run constructed with an explicit non-None name has that name,
\* whatever serialized holds; serialized is not consulted: the derivation
\* raises nothing and assigns nothing.
C10_ExplicitNameKept ==
    ExplicitName =>
        /\ result.status = "ok" => result.run["name"] = given["name"]
        /\ result.exc \in {"none", "ValidationError"}
        /\ values = given

C10_Witness ==
    /\ ExplicitName
    /\ "serialized" \in DOMAIN given
    /\ given["serialized"].t = "dict"
    /\ {"name", "id"} \subseteq DOMAIN given["serialized"].v
    /\ given["serialized"].v["name"] = PyStr(<<"X">>)
    /\ call.path = "model_validate"
    /\ result.status = "ok"
    /\ result.run["name"] = PyStr(<<"N">>)

-----------------------------------------------------------------------------
(* The timestamps specification: construction of every run class over      *)
(* given and defaulted start_time / end_time                                *)

MaxTime == 2
Times == 0 .. MaxTime

StartTimes == {Absent} \cup {DateTime(n) : n \in Times}
EndTimes == {Absent, None} \cup {DateTime(n) : n \in Times}

\* the readings of datetime.utcnow by the default factories of start_time and
\* end_time; utcnow reads the wall clock, which may be set back between them
ClockReadings == [{"start_time", "end_time"} -> Times]

\* a complete, valid keyword mapping of a legacy run, but for the timestamps
LegacyBase(cls) ==
    LET base == [uuid |-> PyStr(<<"u">>),
                 execution_order |-> PyInt(1),
                 child_execution_order |-> PyInt(1),
                 serialized |-> PyDict(EmptyDict),
                 session_id |-> PyInt(1)]
    IN CASE cls = "BaseRun" -> base
         [] cls = "LLMRun" -> Extend(base, [prompts |-> PyList(<<>>)])
         [] cls = "ChainRun" -> Extend(base, [inputs |-> PyDict(EmptyDict)])
         [] cls = "ToolRun" -> Extend(base, [tool_input |-> PyStr(<<"q">>),
                                             action |-> PyStr(<<"a">>)])

Timed(b, s, e) == With(With(b, "start_time", s), "end_time", e)

LegacyTimeInputs(cls) ==
    {Timed(b, s, e) : b \in {LegacyBase(cls), Without(LegacyBase(cls), "uuid")},
                      s \in StartTimes, e \in EndTimes}

RunTimeInputs ==
    {Timed(With(With(Without(RunBase, "start_time"), "name", PyStr(<<"N">>)), "serialized", None), s, e) :
        s \in StartTimes, e \in EndTimes}

ConstructTimedRun == \E d \in RunTimeInputs, p \in Paths : ConstructRun(d, p)

ConstructTimedLegacy ==
    \E cls \in LegacyClasses : \E d \in LegacyTimeInputs(cls), now \in ClockReadings :
        ConstructLegacy(cls, d, now)

NextTimes == ConstructTimedRun \/ ConstructTimedLegacy

SpecTimes == Init /\ [][NextTimes]_vars

\* the last construction was given both timestamps, the end not before the start
GivenOrderedTimes ==
    /\ {"start_time", "end_time"} \subseteq DOMAIN given
    /\ given["start_time"].t = "datetime"
    /\ given["end_time"].t = "datetime"
    /\ given["end_time"].v >= given["start_time"].v

\* C4 as stated: every run record that construction accepts, legacy or
\* current, has an end_time that is absent or not earlier than its start_time.
C4_EndNotBeforeStart ==
    (result.status = "ok" /\ result.run["end_time"] # None)
        => result.run["end_time"].v >= result.run["start_time"].v

\* C4 amended: construction checks no order between the timestamps and keeps
\* the ones it is given, so a record built from a start_time and an end_time
\* given in order has its end_time not earlier than its start_time.
C4_GivenOrderKept ==
    (result.status = "ok" /\ GivenOrderedTimes)
        => /\ result.run["start_time"] = given["start_time"]
           /\ result.run["end_time"] = given["end_time"]
           /\ result.run["end_time"].v >= result.run["start_time"].v

C4_Witness ==
    /\ call.cls = "ChainRun"
    /\ result.status = "ok"
    /\ GivenOrderedTimes
    /\ result.run["start_time"] = DateTime(1)
    /\ result.run["end_time"] = DateTime(2)

-----------------------------------------------------------------------------
(* The child-runs specification: Runs are built and appended to the         *)
(* child_runs list of a parent Run                                          *)

MaxChildren == 2
MaxOrder == 2

ChildInputs ==
    {With(With(DictSet(b, "child_execution_order", PyInt(o)), "name", n), "serialized", PyDict(EmptyDict)) :
        b \in {RunBase}, o \in 1 .. MaxOrder, n \in {Absent, PyStr(<<"N">>), PyStr(<<"M">>)}}

ConstructChild == \E d \in ChildInputs, p \in Paths : ConstructRun(d, p)

AppendBuilt == AppendChild(MaxChildren)

NextChildren == ConstructChild \/ Adopt \/ AppendBuilt

SpecChildren == Init /\ [][NextChildren]_vars

ChildRuns == parent["child_runs"].v

ChildOrder(i) == ChildRuns[i]["child_execution_order"].v

\* C6 as stated: reading child_runs back yields each appended child unchanged
\* at the position where it was appended, and each child's position (counted
\* from 0, or counted from 1) is its child_execution_order.
C6_PositionIsChildExecutionOrder ==
    parent # None =>
        /\ ChildRuns = appended
        /\ \/ \A i \in 1 .. Len(ChildRuns) : ChildOrder(i) = i - 1
           \/ \A i \in 1 .. Len(ChildRuns) : ChildOrder(i) = i

\* C6 amended: reading child_runs back yields each appended child unchanged at
\* the position where it was appended; child_execution_order is whatever the
\* child was built with and is not tied to the position.
C6_ChildrenReadBack ==
    parent # None =>
        /\ Len(ChildRuns) = Len(appended)
        /\ \A i \in 1 .. Len(appended) : ChildRuns[i] = appended[i]

C6_Witness ==
    /\ parent # None
    /\ Len(appended) = 2
    /\ ChildRuns = appended
    /\ ChildOrder(1) = 2
    /\ ChildOrder(2) = 1
    /\ ChildRuns[1]["name"] # ChildRuns[2]["name"]

-----------------------------------------------------------------------------
(* The RunTypeEnum specification: calls of the accessor, and member lookups *)
(* on what it returned                                                      *)

MaxCalls == 5

RunTypes == {"tool", "chain", "llm", "retriever", "embedding", "prompt", "parser"}

LookupArgs == RunTypes \cup {"agent", "LLM", "Tool"}

CallAccessor == CallRunTypeEnum(MaxCalls)

LookupValue == \E v \in LookupArgs : LookupByValue(v)

LookupName == \E n \in LookupArgs : LookupByName(n)

NextEnum == CallAccessor \/ LookupValue \/ LookupName

SpecEnum == Init /\ [][NextEnum]_vars

\* C5: every call of RunTypeEnum issues a DeprecationWarning and returns the
\* enumeration class itself, not an instance, and the string members of that
\* class are exactly tool, chain, llm, retriever, embedding, prompt, parser;
\* every call returns.
C5_AccessorWarnsAndReturnsClass ==
    /\ Len(warned) = ret.calls
    /\ \A i \in 1 .. Len(warned) : warned[i].category = "DeprecationWarning"
    /\ ret.calls > 0 =>
          /\ ret.value.kind = "class"
          /\ ret.value.name = "RunTypeEnumDep"
          /\ {ret.value.members[n] : n \in DOMAIN ret.value.members} = RunTypes
    /\ (looked # None /\ looked.arg \in RunTypes) =>
          (looked.raised = "none" /\ looked.out.value = looked.arg)

C5_Witness ==
    /\ ret.calls = 2
    /\ Len(warned) = 2
    /\ ret.value = RunTypeEnumDep
    /\ looked # None
    /\ looked.how = "value"
    /\ looked.arg = "parser"
    /\ looked.out.value = "parser"

-----------------------------------------------------------------------------
(* The embeddings-adapter specification: the environment is any of: key set *)
(* or not, nlpcloud importable or not                                       *)

MaxAdapters == 2
MaxTexts == 1

Environs == {EmptyDict, [NLPCLOUD_API_KEY |-> PyStr(<<"k-env">>)]}

AdapterInputs ==
    {With(With(With(With(EmptyDict, "model_name", m), "gpu", g), "nlpcloud_api_key", k), "client", c) :
        m \in {Absent, PyStr(<<"m2">>)}, g \in {Absent, PyBool(TRUE)},
        k \in {Absent, PyStr(<<"k-arg">>)}, c \in {Absent, None}}

Texts == {"t1", "t2"}

TextLists == UNION {[1 .. n -> Texts] : n \in 0 .. MaxTexts}

InitNLP ==
    /\ InitSchemas
    /\ environ \in Environs
    /\ installed \in BOOLEAN
    /\ adapters = {}
    /\ embedded = None

Construct == \E kw \in AdapterInputs, p \in Paths : ConstructAdapter(kw, p, MaxAdapters)

EmbedDocuments ==
    \E a \in adapters, ts \in TextLists, answered \in BOOLEAN : embed_documents(a, ts, answered)

EmbedQuery ==
    \E a \in adapters, tx \in Texts, answered \in BOOLEAN : embed_query(a, tx, answered)

NextNLP == Construct \/ EmbedDocuments \/ EmbedQuery

SpecNLP == InitNLP /\ [][NextNLP]_vars

\* the credential of the last construction is in neither the given mapping nor
\* the environment
CredentialMissing ==
    /\ "nlpcloud_api_key" \notin DOMAIN given
    /\ "NLPCLOUD_API_KEY" \notin DOMAIN environ

\* C7: constructing an NLPCloudEmbeddings fails with an error when the
\* credential is in neither the given values nor NLPCLOUD_API_KEY, or when
\* nlpcloud cannot be imported; every adapter that exists has its client set,
\* and embed_documents and embed_query never run against an unset client.
C7_AdapterHasClient ==
    /\ (call.cls = "NLPCloudEmbeddings" /\ (CredentialMissing \/ ~installed))
          => (result.status = "error" /\ result.run = EmptyDict)
    /\ \A a \in adapters : a["client"] # None /\ a["client"].t = "Client"
    /\ embedded # None => (embedded.client # None /\ embedded.raised # "AttributeError")

C7_Witness ==
    /\ call.cls = "NLPCloudEmbeddings"
    /\ "client" \in DOMAIN given
    /\ given["client"] = None
    /\ result.status = "ok"
    /\ result.run["client"] = Client(DefaultModelName, PyStr(<<"k-env">>), PyBool(FALSE), "en")
    /\ embedded # None
    /\ embedded.op = "embed_query"
    /\ embedded.raised = "none"

====
